---- MODULE Spec2Model ----
(***************************************************************************)
(* A model of src/basic/bitmap.c (systemd): a growable bitmap of small     *)
(* unsigned numbers, kept as an array of 64-bit words.                     *)
(*                                                                         *)
(* A uint64_t word is modelled as the set of its set bit positions         *)
(* (a subset of 0..63): the word 0 is {}, w | (1 << r) is w \cup {r},      *)
(* w & ~(1 << r) is w \ {r} and w & (1 << r) is non-zero iff r \in w.      *)
(*                                                                         *)
(* The heap is explicit: a Bitmap holds a pointer to its block of words,   *)
(* so that two Bitmaps sharing one block is a state the model can be in.   *)
(* The allocator (malloc, realloc, free, newdup, GREEDY_REALLOC0) is not   *)
(* part of bitmap.c; it is modelled as the C library and the spec's        *)
(* amortized growth helper behave: an allocation may fail, a failed        *)
(* reallocation leaves the block alone, a grown block keeps its words in   *)
(* place, and GREEDY_REALLOC0 zeroes the words it adds.  The address an    *)
(* allocation returns is the lowest free one: bitmap.c never compares      *)
(* addresses of blocks.                                                    *)
(*                                                                         *)
(* bitmap_copy of a Bitmap without words calls memdup(NULL, 0) and         *)
(* bitmap_equal of two such calls memcmp(NULL, NULL, 0): both are taken    *)
(* to touch no byte.  malloc(0) returning NULL is the failure of the copy. *)
(*                                                                         *)
(* An unsigned has 32 bits and the model's integers 31: BITMAP_END,        *)
(* (unsigned) -1, is kept as -1, and the numbers above 65535 that are      *)
(* tried end at 2147483647.  No cursor reaches either: the greatest is     *)
(* 65535 + 1.                                                              *)
(***************************************************************************)
EXTENDS Integers, Sequences, FiniteSets, TLC

VARIABLES
    heap,   \* the allocator's blocks: address -> [live, w], w the words (offset i at w[i+1])
    bm,     \* the caller's Bitmap handles: slot -> Bitmap (null: the handle is NULL)
    cur,    \* the caller's iteration: [on, s, idx, seen]; a call that may change a Bitmap ends it
    last,   \* the last call: [op, s, t, n, ret, len], len the logical length it found
    hist    \* per slot, history of the Bitmap it holds: [maxset, copied]

vars == <<heap, bm, cur, last, hist>>

----------------------------------------------------------------------------
(* Program constants *)

WORD_BITS == 64

BITMAPS_MAX_ENTRY == 65535

\* (unsigned) -1: the one cursor value that is no number to examine
BITMAP_END == -1

NULLPTR == 0

\* sizeof(uint64_t)
WORD_BYTES == 8

\* the least the growth helper allocates, in bytes
GreedyMinBytes == 64

----------------------------------------------------------------------------
(* Bounds of the model *)

\* the caller's handles; the first alone in Spec, both in SpecPair
Slots == {1, 2}

\* one block per Bitmap
Addrs == {1, 2}

\* the words after word 0 whose first bit is an input
MidWords == 2

\* a number whose word lies beyond the first over-allocation (8 words)
FarNum == 600

\* the numbers handed to set and unset in Spec: the first and the last bit of
\* word 0, the first bit of the words after it, and FarNum
Nums == {0, WORD_BITS - 1} \cup {w * WORD_BITS : w \in 1..MidWords} \cup {FarNum}

\* the numbers handed to set and unset in SpecPair
PairNums == {5, FarNum}

\* numbers beyond BITMAPS_MAX_ENTRY (an unsigned has 32 bits; the model's integers 31)
BigNums == {BITMAPS_MAX_ENTRY + 1, 2147483647}

\* the numbers membership is observed on: every bit of every word a block can hold
Universe == 0..(2 * ((FarNum \div WORD_BITS) + 1) * WORD_BITS - 1)

----------------------------------------------------------------------------
(* Words and blocks *)

Max(a, b) == IF a >= b THEN a ELSE b

Min(a, b) == IF a <= b THEN a ELSE b

BITMAP_NUM_TO_OFFSET(n) == n \div WORD_BITS

BITMAP_NUM_TO_REM(n) == n % WORD_BITS

BITMAP_OFFSET_TO_NUM(offset, rem) == offset * WORD_BITS + rem

\* b->bitmaps[offset]
WordAt(h, p, offset) == h[p].w[offset + 1]

\* heap with b->bitmaps[offset] = word
StoreWord(h, p, offset, word) == [h EXCEPT ![p].w[offset + 1] = word]

FreedBlock == [live |-> FALSE, w |-> <<>>]

\* malloc's choice among the free addresses: the lowest
Malloc(h) == CHOOSE a \in Addrs : ~h[a].live /\ \A c \in Addrs : ~h[c].live => a <= c

\* free(p), and free(NULL) does nothing
Free(h, p) == IF p = NULLPTR THEN h ELSE [h EXCEPT ![p] = FreedBlock]

\* what realloc leaves in the words it adds: anything; here every bit set
Garbage == 0..(WORD_BITS - 1)

\* memzero(q + prev, count words)
Memzero(w, prev, count) == [i \in 1..Len(w) |-> IF i > prev /\ i <= prev + count THEN {} ELSE w[i]]

----------------------------------------------------------------------------
(* The Bitmap and its functions *)

NullBitmap == [null |-> TRUE, bitmaps |-> NULLPTR, n_bitmaps |-> 0, bitmaps_allocated |-> 0]

\* new0(Bitmap, 1): all fields zero, or NULL when the allocation fails
bitmap_new(fail) ==
    IF fail THEN NullBitmap
    ELSE [null |-> FALSE, bitmaps |-> NULLPTR, n_bitmaps |-> 0, bitmaps_allocated |-> 0]

\* newdup(uint64_t, p, n): a new block holding the first n words of p
newdup(h, p, n) ==
    LET a == Malloc(h)
    IN  [p |-> a,
         h |-> [h EXCEPT ![a] = [live |-> TRUE,
                                 w |-> [i \in 1..n |-> WordAt(h, p, i - 1)]]]]

\* bitmap_copy that copies the pointer, not the words: ret->bitmaps = b->bitmaps
bitmap_copy_shares_words(h, b, failNew, failDup) ==
    LET ret == bitmap_new(failNew)
    IN  IF ret.null THEN [b |-> NullBitmap, h |-> h]
        ELSE IF failDup THEN [b |-> NullBitmap, h |-> h]
        ELSE [b |-> [ret EXCEPT !.bitmaps = b.bitmaps,
                                !.n_bitmaps = b.n_bitmaps,
                                !.bitmaps_allocated = b.n_bitmaps],
              h |-> h]

bitmap_copy(h, b, failNew, failDup) ==
    LET ret == bitmap_new(failNew)
        d   == newdup(h, b.bitmaps, b.n_bitmaps)
    IN  IF ret.null THEN [b |-> NullBitmap, h |-> h]
        ELSE IF failDup THEN [b |-> NullBitmap, h |-> h]
        ELSE [b |-> [ret EXCEPT !.bitmaps = d.p,
                                !.n_bitmaps = b.n_bitmaps,
                                !.bitmaps_allocated = b.n_bitmaps],
              h |-> d.h]

\* GREEDY_REALLOC0(p, allocated, need): nothing when allocated >= need; else the
\* block is reallocated to more than the need (twice the need, 64 bytes at
\* least), the old words kept and the words from the old capacity on zeroed; on
\* failure NULL, and the block and the capacity are as they were
greedy_realloc0(h, p, allocated, need, fail) ==
    IF allocated >= need THEN [q |-> p, h |-> h, allocated |-> allocated]
    ELSE IF fail THEN [q |-> NULLPTR, h |-> h, allocated |-> allocated]
    ELSE LET newalloc == Max(need * 2, GreedyMinBytes \div WORD_BYTES)
             q   == IF p = NULLPTR THEN Malloc(h) ELSE p
             old == IF p = NULLPTR THEN <<>> ELSE h[p].w
             grown == [i \in 1..newalloc |-> IF i <= Len(old) THEN old[i] ELSE Garbage]
         IN  [q |-> q,
              h |-> [h EXCEPT ![q] = [live |-> TRUE,
                                      w |-> Memzero(grown, allocated, newalloc - allocated)]],
              allocated |-> newalloc]

\* what bitmap_set does once n is in range, with the length it writes after a
\* growth (lengthFor), the length it leaves when the growth fails (lengthOnFail)
\* and the word it stores (store) open
SetInRange(h, b, n, fail, lengthFor(_), lengthOnFail(_), store(_, _)) ==
    LET offset == BITMAP_NUM_TO_OFFSET(n)
        g  == IF offset >= b.n_bitmaps
              THEN greedy_realloc0(h, b.bitmaps, b.bitmaps_allocated, offset + 1, fail)
              ELSE [q |-> b.bitmaps, h |-> h, allocated |-> b.bitmaps_allocated]
        b1 == [b EXCEPT !.bitmaps = g.q,
                        !.bitmaps_allocated = g.allocated,
                        !.n_bitmaps = IF offset >= b.n_bitmaps THEN lengthFor(offset) ELSE @]
    IN  IF offset >= b.n_bitmaps /\ g.q = NULLPTR
        THEN [ret |-> "-ENOMEM", b |-> [b EXCEPT !.n_bitmaps = lengthOnFail(offset)], h |-> h]
        ELSE [ret |-> "0", b |-> b1,
              h |-> StoreWord(g.h, b1.bitmaps, offset,
                              store(WordAt(g.h, b1.bitmaps, offset), BITMAP_NUM_TO_REM(n)))]

\* bitmap_set with the limit off by one: n > BITMAPS_MAX_ENTRY + 1
bitmap_set_limit_off_by_one(h, b, n, fail) ==
    IF n > BITMAPS_MAX_ENTRY + 1 THEN [ret |-> "-ERANGE", b |-> b, h |-> h]
    ELSE LET lengthFor(offset) == offset + 1
             lengthOnFail(offset) == b.n_bitmaps
             store(word, rem) == word \cup {rem}
         IN  SetInRange(h, b, n, fail, lengthFor, lengthOnFail, store)

\* bitmap_set that writes the length before it looks at what the growth returned
bitmap_set_length_before_growth(h, b, n, fail) ==
    IF n > BITMAPS_MAX_ENTRY THEN [ret |-> "-ERANGE", b |-> b, h |-> h]
    ELSE LET lengthFor(offset) == offset + 1
             lengthOnFail(offset) == offset + 1
             store(word, rem) == word \cup {rem}
         IN  SetInRange(h, b, n, fail, lengthFor, lengthOnFail, store)

\* bitmap_set with the length one short: b->n_bitmaps = offset
bitmap_set_length_one_short(h, b, n, fail) ==
    IF n > BITMAPS_MAX_ENTRY THEN [ret |-> "-ERANGE", b |-> b, h |-> h]
    ELSE LET lengthFor(offset) == offset
             lengthOnFail(offset) == b.n_bitmaps
             store(word, rem) == word \cup {rem}
         IN  SetInRange(h, b, n, fail, lengthFor, lengthOnFail, store)

\* bitmap_set that assigns the mask: b->bitmaps[offset] = bitmask
bitmap_set_assigns_mask(h, b, n, fail) ==
    IF n > BITMAPS_MAX_ENTRY THEN [ret |-> "-ERANGE", b |-> b, h |-> h]
    ELSE LET lengthFor(offset) == offset + 1
             lengthOnFail(offset) == b.n_bitmaps
             store(word, rem) == {rem}
         IN  SetInRange(h, b, n, fail, lengthFor, lengthOnFail, store)

bitmap_set(h, b, n, fail) ==
    IF n > BITMAPS_MAX_ENTRY THEN [ret |-> "-ERANGE", b |-> b, h |-> h]
    ELSE LET offset == BITMAP_NUM_TO_OFFSET(n)
             g  == IF offset >= b.n_bitmaps
                   THEN greedy_realloc0(h, b.bitmaps, b.bitmaps_allocated, offset + 1, fail)
                   ELSE [q |-> b.bitmaps, h |-> h, allocated |-> b.bitmaps_allocated]
             b1 == [b EXCEPT !.bitmaps = g.q,
                             !.bitmaps_allocated = g.allocated,
                             !.n_bitmaps = IF offset >= b.n_bitmaps THEN offset + 1 ELSE @]
         IN  IF offset >= b.n_bitmaps /\ g.q = NULLPTR
             THEN [ret |-> "-ENOMEM", b |-> b, h |-> h]
             ELSE [ret |-> "0", b |-> b1,
                   h |-> StoreWord(g.h, b1.bitmaps, offset,
                                   WordAt(g.h, b1.bitmaps, offset) \cup {BITMAP_NUM_TO_REM(n)})]

\* bitmap_unset with the mask not complemented: b->bitmaps[offset] &= bitmask
bitmap_unset_keeps_bit(h, b, n) ==
    IF b.null THEN h
    ELSE LET offset == BITMAP_NUM_TO_OFFSET(n)
         IN  IF offset >= b.n_bitmaps THEN h
             ELSE StoreWord(h, b.bitmaps, offset,
                            WordAt(h, b.bitmaps, offset) \cap {BITMAP_NUM_TO_REM(n)})

bitmap_unset(h, b, n) ==
    IF b.null THEN h
    ELSE LET offset == BITMAP_NUM_TO_OFFSET(n)
         IN  IF offset >= b.n_bitmaps THEN h
             ELSE StoreWord(h, b.bitmaps, offset,
                            WordAt(h, b.bitmaps, offset) \ {BITMAP_NUM_TO_REM(n)})

bitmap_isset(h, b, n) ==
    IF b.null THEN FALSE
    ELSE LET offset == BITMAP_NUM_TO_OFFSET(n)
         IN  IF offset >= b.n_bitmaps THEN FALSE
             ELSE BITMAP_NUM_TO_REM(n) \in WordAt(h, b.bitmaps, offset)

bitmap_isclear(h, b) ==
    IF b.null THEN TRUE
    ELSE \A i \in 0..(b.n_bitmaps - 1) : WordAt(h, b.bitmaps, i) = {}

\* bitmap_clear that frees the words and leaves the capacity as it was
bitmap_clear_keeps_capacity(h, b) ==
    IF b.null THEN [b |-> b, h |-> h]
    ELSE [b |-> [b EXCEPT !.bitmaps = NULLPTR, !.n_bitmaps = 0],
          h |-> Free(h, b.bitmaps)]

bitmap_clear(h, b) ==
    IF b.null THEN [b |-> b, h |-> h]
    ELSE [b |-> [b EXCEPT !.bitmaps = NULLPTR, !.n_bitmaps = 0, !.bitmaps_allocated = 0],
          h |-> Free(h, b.bitmaps)]

bitmap_free(h, b) == IF b.null THEN h ELSE Free(h, b.bitmaps)

\* first set bit of word at or after rem, as the inner loop finds it: the mask
\* 1 << rem is shifted left until it is 0, which is at rem = 64
RECURSIVE ScanBits(_, _)
ScanBits(word, rem) ==
    IF rem >= WORD_BITS THEN WORD_BITS
    ELSE IF rem \in word THEN rem
    ELSE ScanBits(word, rem + 1)

\* the outer loop without "rem = 0; bitmask = 1": the next word is entered with
\* the mask the inner loop ended on, which is 0
RECURSIVE ScanWords_no_reset(_, _, _, _)
ScanWords_no_reset(h, b, offset, rem) ==
    IF offset >= b.n_bitmaps THEN [ret |-> FALSE, idx |-> BITMAP_END, n |-> 0]
    ELSE LET word == WordAt(h, b.bitmaps, offset)
             r    == IF word # {} THEN ScanBits(word, rem) ELSE rem
         IN  IF word # {} /\ r < WORD_BITS
             THEN [ret |-> TRUE, idx |-> BITMAP_OFFSET_TO_NUM(offset, r) + 1,
                   n |-> BITMAP_OFFSET_TO_NUM(offset, r)]
             ELSE ScanWords_no_reset(h, b, offset + 1, r)

\* the outer loop of bitmap_iterate from (offset, rem)
RECURSIVE ScanWords(_, _, _, _)
ScanWords(h, b, offset, rem) ==
    IF offset >= b.n_bitmaps THEN [ret |-> FALSE, idx |-> BITMAP_END, n |-> 0]
    ELSE LET word == WordAt(h, b.bitmaps, offset)
             r    == IF word # {} THEN ScanBits(word, rem) ELSE WORD_BITS
         IN  IF r < WORD_BITS
             THEN [ret |-> TRUE, idx |-> BITMAP_OFFSET_TO_NUM(offset, r) + 1,
                   n |-> BITMAP_OFFSET_TO_NUM(offset, r)]
             ELSE ScanWords(h, b, offset + 1, 0)

\* bitmap_iterate(b, &i, &n): ret, the cursor after the call, and *n when ret
bitmap_iterate(h, b, idx) ==
    IF b.null \/ idx = BITMAP_END THEN [ret |-> FALSE, idx |-> idx, n |-> 0]
    ELSE ScanWords(h, b, BITMAP_NUM_TO_OFFSET(idx), BITMAP_NUM_TO_REM(idx))

\* bitmap_equal that takes Bitmaps of different lengths for different
bitmap_equal_same_length(h, a, b, same) ==
    IF same THEN TRUE
    ELSE IF a.null # b.null THEN FALSE
    ELSE IF a.null THEN TRUE
    ELSE /\ a.n_bitmaps = b.n_bitmaps
         /\ \A i \in 0..(a.n_bitmaps - 1) : WordAt(h, a.bitmaps, i) = WordAt(h, b.bitmaps, i)

\* bitmap_equal(a, b); same: a == b as pointers
bitmap_equal(h, a, b, same) ==
    IF same THEN TRUE
    ELSE IF a.null # b.null THEN FALSE
    ELSE IF a.null THEN TRUE
    ELSE LET common_n_bitmaps == Min(a.n_bitmaps, b.n_bitmaps)
             c == IF a.n_bitmaps > b.n_bitmaps THEN a ELSE b
         IN  IF \E i \in 0..(common_n_bitmaps - 1) :
                    WordAt(h, a.bitmaps, i) # WordAt(h, b.bitmaps, i)
             THEN FALSE
             ELSE \A i \in common_n_bitmaps..(c.n_bitmaps - 1) : WordAt(h, c.bitmaps, i) = {}

----------------------------------------------------------------------------
(* The caller: handles, calls and a cursor *)

NoIteration == [on |-> FALSE, s |-> 0, idx |-> 0, seen |-> <<>>]

NoHistory == [maxset |-> 0, copied |-> 0]

NoCall == [op |-> "init", s |-> 0, t |-> 0, n |-> 0, ret |-> "0", len |-> 0]

Init ==
    /\ heap = [a \in Addrs |-> FreedBlock]
    /\ bm = [s \in Slots |-> NullBitmap]
    /\ cur = NoIteration
    /\ last = NoCall
    /\ hist = [s \in Slots |-> NoHistory]

\* two handles are the same pointer: one handle, or both NULL
SamePointer(B, s, t) == s = t \/ (B[s].null /\ B[t].null)

\* bitmap_ensure_allocated(&bm[s])
EnsureAllocated(s) ==
    \E fail \in BOOLEAN :
      /\ fail => bm[s].null
      /\ LET a == IF bm[s].null THEN bitmap_new(fail) ELSE bm[s]
         IN  /\ bm' = [bm EXCEPT ![s] = a]
             /\ hist' = [hist EXCEPT ![s] = IF bm[s].null THEN NoHistory ELSE @]
             /\ last' = [op |-> "ensure", s |-> s, t |-> 0, n |-> 0,
                         ret |-> IF a.null THEN "-ENOMEM" ELSE "0", len |-> bm[s].n_bitmaps]
             /\ cur' = NoIteration
             /\ UNCHANGED heap

\* bm[t] = bitmap_copy(bm[s]), into a handle that holds nothing
Copy(s, t) ==
    /\ ~bm[s].null
    /\ bm[t].null
    /\ \E failNew \in BOOLEAN, failDup \in BOOLEAN :
        LET r == bitmap_copy(heap, bm[s], failNew, failDup)
        IN  /\ ~(failNew /\ failDup)
            /\ bm' = [bm EXCEPT ![t] = r.b]
            /\ heap' = r.h
            /\ hist' = [hist EXCEPT ![t] = [maxset |-> 0, copied |-> r.b.n_bitmaps]]
            /\ last' = [op |-> "copy", s |-> s, t |-> t, n |-> 0,
                        ret |-> IF r.b.null THEN "NULL" ELSE "0", len |-> bm[s].n_bitmaps]
            /\ cur' = NoIteration

\* bitmap_free(bm[s]); bm[s] = NULL
FreeBitmap(s) ==
    /\ heap' = bitmap_free(heap, bm[s])
    /\ bm' = [bm EXCEPT ![s] = NullBitmap]
    /\ hist' = [hist EXCEPT ![s] = NoHistory]
    /\ last' = [op |-> "free", s |-> s, t |-> 0, n |-> 0, ret |-> "0", len |-> bm[s].n_bitmaps]
    /\ cur' = NoIteration

\* bitmap_set(b, n) calls the allocator
Allocates(b, n) ==
    /\ n <= BITMAPS_MAX_ENTRY
    /\ BITMAP_NUM_TO_OFFSET(n) >= b.n_bitmaps
    /\ BITMAP_NUM_TO_OFFSET(n) >= b.bitmaps_allocated

\* bitmap_set(bm[s], n), which asserts bm[s]; an allocation it makes may fail
Set(s, N) ==
    /\ ~bm[s].null
    /\ \E n \in N \cup BigNums, fail \in BOOLEAN :
        LET r == bitmap_set(heap, bm[s], n, fail)
        IN  /\ fail => Allocates(bm[s], n)
            /\ bm' = [bm EXCEPT ![s] = r.b]
            /\ heap' = r.h
            /\ hist' = [hist EXCEPT ![s].maxset =
                            IF r.ret = "0" THEN Max(@, BITMAP_NUM_TO_OFFSET(n) + 1) ELSE @]
            /\ last' = [op |-> "set", s |-> s, t |-> 0, n |-> n, ret |-> r.ret, len |-> bm[s].n_bitmaps]
            /\ cur' = NoIteration

\* bitmap_unset(bm[s], n)
Unset(s, N) ==
    \E n \in N \cup BigNums :
        /\ heap' = bitmap_unset(heap, bm[s], n)
        /\ last' = [op |-> "unset", s |-> s, t |-> 0, n |-> n, ret |-> "0", len |-> bm[s].n_bitmaps]
        /\ cur' = NoIteration
        /\ UNCHANGED <<bm, hist>>

\* bitmap_clear(bm[s])
Clear(s) ==
    LET r == bitmap_clear(heap, bm[s])
    IN  /\ bm' = [bm EXCEPT ![s] = r.b]
        /\ heap' = r.h
        /\ hist' = [hist EXCEPT ![s] = NoHistory]
        /\ last' = [op |-> "clear", s |-> s, t |-> 0, n |-> 0, ret |-> "0", len |-> bm[s].n_bitmaps]
        /\ cur' = NoIteration

\* Iterator i = ITERATOR_FIRST: the cursor at 0
IterStart(s) ==
    /\ cur' = [on |-> TRUE, s |-> s, idx |-> 0, seen |-> <<>>]
    /\ last' = [op |-> "first", s |-> s, t |-> 0, n |-> 0, ret |-> "0", len |-> bm[s].n_bitmaps]
    /\ UNCHANGED <<heap, bm, hist>>

\* bitmap_iterate(bm[cur.s], &i, &n) with the cursor of the running iteration
IterNext ==
    /\ cur.on
    /\ LET r == bitmap_iterate(heap, bm[cur.s], cur.idx)
       IN  /\ cur' = [cur EXCEPT !.idx = r.idx,
                                 !.seen = IF r.ret THEN Append(@, r.n) ELSE @]
           /\ last' = [op |-> "iterate", s |-> cur.s, t |-> 0, n |-> r.n,
                       ret |-> IF r.ret THEN "true" ELSE "false", len |-> bm[cur.s].n_bitmaps]
    /\ UNCHANGED <<heap, bm, hist>>

\* one Bitmap, every number of Nums, and an iteration
Next ==
    \/ EnsureAllocated(1)
    \/ FreeBitmap(1)
    \/ Set(1, Nums)
    \/ Unset(1, Nums)
    \/ Clear(1)
    \/ IterStart(1)
    \/ IterNext

Spec == Init /\ [][Next]_vars

\* two Bitmaps, copies between them, the numbers of PairNums
NextPair ==
    \/ \E s \in Slots : EnsureAllocated(s)
    \/ \E s \in Slots : FreeBitmap(s)
    \/ \E s \in Slots : Set(s, PairNums)
    \/ \E s \in Slots : Unset(s, PairNums)
    \/ \E s \in Slots : Clear(s)
    \/ \E s \in Slots, t \in Slots : Copy(s, t)

SpecPair == Init /\ [][NextPair]_vars

----------------------------------------------------------------------------
(* What the claims speak of *)

\* the numbers bitmap_isset answers true for
Members(h, b) == {n \in Universe : bitmap_isset(h, b, n)}

\* the numbers the words in use hold: bit r of word offset is offset * 64 + r
WordMembers(h, b) ==
    IF b.null THEN {}
    ELSE UNION {{BITMAP_OFFSET_TO_NUM(offset, r) : r \in WordAt(h, b.bitmaps, offset)} :
                offset \in 0..(b.n_bitmaps - 1)}

\* bitmap_isset answers true for the numbers the words in use hold and no other
IssetReadsWords ==
    \A s \in Slots :
        LET b == bm[s]
            m == WordMembers(heap, b)
        IN  \A n \in Universe \cup BigNums : bitmap_isset(heap, b, n) <=> n \in m

Range(seq) == {seq[i] : i \in 1..Len(seq)}

----------------------------------------------------------------------------
(* C1 *)

\* C1: after a successful bitmap_set(b, n), bitmap_isset(b, n) is true; after a
\* bitmap_unset(b, n), also one that follows that set, bitmap_isset(b, n) is false.
\* The greatest number, 65535, is tried on every Bitmap reached: set succeeds
\* when memory is there, the number is then set, and unset after that.
C1_SetThenUnset ==
    /\ (last.op = "set" /\ last.ret = "0") => bitmap_isset(heap, bm[last.s], last.n)
    /\ last.op = "unset" => ~bitmap_isset(heap, bm[last.s], last.n)
    /\ \A s \in Slots :
           ~bm[s].null =>
               LET r == bitmap_set(heap, bm[s], BITMAPS_MAX_ENTRY, FALSE)
               IN  /\ r.ret = "0"
                   /\ bitmap_isset(r.h, r.b, BITMAPS_MAX_ENTRY)
                   /\ ~bitmap_isset(bitmap_unset(r.h, r.b, BITMAPS_MAX_ENTRY), r.b,
                                    BITMAPS_MAX_ENTRY)

\* FarNum was set, the length still covers its word, and it has just been unset
C1_Witness ==
    /\ last.op = "unset" /\ last.n = FarNum
    /\ hist[last.s].maxset = BITMAP_NUM_TO_OFFSET(FarNum) + 1
    /\ bm[last.s].n_bitmaps = BITMAP_NUM_TO_OFFSET(FarNum) + 1
    /\ Members(heap, bm[last.s]) # {}

----------------------------------------------------------------------------
(* C2 *)

\* what holds of an iteration that started at cursor 0, no call changing the
\* Bitmap since: the numbers produced are members, strictly ascending, no member
\* below the cursor was left out, and at the end all members were produced
IterationExact ==
    cur.on =>
        LET b == bm[cur.s]
            m == Members(heap, b)
        IN  /\ \A i \in 1..Len(cur.seen) : cur.seen[i] \in m
            /\ \A i \in 1..(Len(cur.seen) - 1) : cur.seen[i] < cur.seen[i + 1]
            /\ \A n \in m : (cur.idx = BITMAP_END \/ n < cur.idx) => n \in Range(cur.seen)
            /\ cur.idx = BITMAP_END => Range(cur.seen) = m
            /\ (last.op = "iterate" /\ last.ret = "true") =>
                   /\ cur.seen # <<>>
                   /\ last.n = cur.seen[Len(cur.seen)]
                   /\ cur.idx = last.n + 1
            /\ (last.op = "iterate" /\ last.ret = "false") =>
                   /\ Range(cur.seen) = m
                   /\ b.null \/ cur.idx = BITMAP_END

\* C2: from cursor 0 and with no mutation between the calls, bitmap_iterate
\* produces exactly the members, each once and ascending, then returns false,
\* and once it has returned false every later call returns false again and
\* leaves the cursor alone.
C2_IterateExact ==
    [][ /\ IterationExact'
        /\ (cur.on /\ cur'.on /\ last.op = "iterate" /\ last.ret = "false"
            /\ last'.op = "iterate")
           => (last'.ret = "false" /\ cur' = cur) ]_vars

\* an iteration over three members in three words' distance, ended, and called again
C2_Witness ==
    /\ cur.on /\ cur.idx = BITMAP_END
    /\ cur.seen = <<WORD_BITS - 1, WORD_BITS, FarNum>>
    /\ last.op = "iterate" /\ last.ret = "false"

----------------------------------------------------------------------------
(* C3 *)

\* C3: when exactly one of a and b is NULL, bitmap_equal(a, b) is true when the
\* other has no set bit and false when it has one.
C3_AbsentEqualsEmpty ==
    \A s \in Slots, t \in Slots :
        (bm[s].null /\ ~bm[t].null) =>
            /\ bitmap_equal(heap, bm[s], bm[t], SamePointer(bm, s, t)) = bitmap_isclear(heap, bm[t])
            /\ bitmap_equal(heap, bm[t], bm[s], SamePointer(bm, t, s)) = bitmap_isclear(heap, bm[t])

----------------------------------------------------------------------------
(* C4 *)

\* C4: for two Bitmaps, neither NULL, bitmap_equal(a, b) is true if and only if
\* bitmap_isset answers the same for both on every number, whatever their lengths.
C4_EqualIffSameMembers ==
    (\A s \in Slots : ~bm[s].null) =>
        LET same == \A n \in Universe \cup BigNums :
                        bitmap_isset(heap, bm[1], n) = bitmap_isset(heap, bm[2], n)
        IN  \A s \in Slots, t \in Slots :
                bitmap_equal(heap, bm[s], bm[t], SamePointer(bm, s, t)) <=> (s = t \/ same)

\* one Bitmap grown by setting and unsetting FarNum, the other never grown that
\* far, the same members in both, and bitmap_equal says so
C4_Witness ==
    /\ ~bm[1].null /\ ~bm[2].null
    /\ hist[1] = [maxset |-> BITMAP_NUM_TO_OFFSET(FarNum) + 1, copied |-> 0]
    /\ hist[2] = [maxset |-> 1, copied |-> 0]
    /\ bm[1].n_bitmaps > bm[2].n_bitmaps
    /\ Members(heap, bm[1]) # {}
    /\ bitmap_equal(heap, bm[1], bm[2], SamePointer(bm, 1, 2))

----------------------------------------------------------------------------
(* C5 *)

\* C5: bitmap_set(b, n) with n > 65535 returns -ERANGE and leaves b as it was:
\* words, length and capacity, so that b is equal to what it was equal to before.
C5_OutOfRangeUnchanged ==
    [][ (last'.op = "set" /\ last'.n > BITMAPS_MAX_ENTRY) =>
            /\ last'.ret = "-ERANGE"
            /\ bm' = bm
            /\ heap' = heap
            /\ \A t \in Slots :
                   bitmap_equal(heap', bm'[last'.s], bm'[t], SamePointer(bm', last'.s, t))
                       = bitmap_equal(heap, bm[last'.s], bm[t], SamePointer(bm, last'.s, t)) ]_vars

\* a set out of range on a Bitmap with a member, a copy of it in the other handle
C5_Witness ==
    /\ last.op = "set" /\ last.ret = "-ERANGE" /\ last.n = BITMAPS_MAX_ENTRY + 1
    /\ \E t \in Slots \ {last.s} :
           /\ ~bm[t].null
           /\ hist[t].copied > 0
           /\ Members(heap, bm[t]) # {}
           /\ bitmap_equal(heap, bm[last.s], bm[t], SamePointer(bm, last.s, t))

----------------------------------------------------------------------------
(* C6 *)

\* C6: bitmap_copy(b) returns a Bitmap equal to b that shares no words with it:
\* set, unset and clear on one of two Bitmaps leave the members of the other.
C6_CopyIndependent ==
    /\ []IssetReadsWords
    /\ [][ /\ (last'.op = "copy" /\ last'.ret = "0") =>
                  /\ bitmap_equal(heap', bm'[last'.s], bm'[last'.t], FALSE)
                  /\ WordMembers(heap', bm'[last'.t]) = WordMembers(heap, bm[last'.s])
                  /\ WordMembers(heap', bm'[last'.s]) = WordMembers(heap, bm[last'.s])
                  /\ bm'[last'.t].bitmaps # bm'[last'.s].bitmaps
           /\ last'.op \in {"set", "unset", "clear"} =>
                  \A t \in Slots \ {last'.s} :
                      WordMembers(heap', bm'[t]) = WordMembers(heap, bm[t]) ]_vars

\* a copy of a Bitmap with a member, then a set on one of the two: the members differ
C6_Witness ==
    /\ last.op = "set" /\ last.ret = "0"
    /\ \E t \in Slots :
           /\ hist[t].copied > 0
           /\ ~bm[1].null /\ ~bm[2].null
           /\ Members(heap, bm[1]) # {}
           /\ Members(heap, bm[2]) # {}
           /\ Members(heap, bm[1]) # Members(heap, bm[2])

----------------------------------------------------------------------------
(* C7 *)

\* C7: after bitmap_clear(b) the Bitmap is what bitmap_new returns (no words,
\* length and capacity 0, its block freed), so every later call does on it what
\* it does on a new Bitmap, and bitmap_isclear is true; on NULL nothing changes.
C7_ClearIsFresh ==
    [][ last'.op = "clear" =>
            /\ bitmap_isclear(heap', bm'[last'.s])
            /\ ~bm[last'.s].null =>
                   /\ bm'[last'.s] = bitmap_new(FALSE)
                   /\ heap' = Free(heap, bm[last'.s].bitmaps)
                   /\ \A n \in Nums \cup BigNums, fail \in BOOLEAN :
                          /\ bitmap_set(heap', bm'[last'.s], n, fail).ret
                                 = bitmap_set(heap', bitmap_new(FALSE), n, fail).ret
                          /\ ~bitmap_isset(heap', bm'[last'.s], n)
                   /\ ~bitmap_iterate(heap', bm'[last'.s], 0).ret
            /\ bm[last'.s].null => (bm' = bm /\ heap' = heap) ]_vars

\* a Bitmap that had grown twice and held members, just cleared
C7_Witness ==
    /\ last.op = "clear" /\ ~bm[last.s].null
    /\ last.len = BITMAP_NUM_TO_OFFSET(FarNum) + 1
    /\ hist[last.s] = NoHistory

----------------------------------------------------------------------------
(* C8 *)

\* C8: when bitmap_set(b, n) has to grow the words and the allocation fails, it
\* returns -ENOMEM and the Bitmap is as before: length, capacity, words, members.
C8_NoMemUnchanged ==
    /\ \A s \in Slots, n \in Nums :
           (~bm[s].null /\ Allocates(bm[s], n)) =>
               LET r == bitmap_set(heap, bm[s], n, TRUE)
               IN  /\ r.ret = "-ENOMEM"
                   /\ r.b = bm[s]
                   /\ r.h = heap
                   /\ Members(r.h, r.b) = Members(heap, bm[s])
    /\ (last.op = "set" /\ last.ret = "-ENOMEM") => bm[last.s].n_bitmaps = last.len

\* a set of FarNum that failed for memory on a Bitmap that holds members
C8_Witness ==
    /\ last.op = "set" /\ last.ret = "-ENOMEM" /\ last.n = FarNum
    /\ bm[last.s].n_bitmaps > 0
    /\ Members(heap, bm[last.s]) # {}

----------------------------------------------------------------------------
(* C9 *)

\* the length is within the capacity
LengthWithinCapacity == \A s \in Slots : bm[s].n_bitmaps <= bm[s].bitmaps_allocated

----------------------------------------------------------------------------
(* C10 *)

\* C10: bitmap_set(b, n) and bitmap_unset(b, n) change what bitmap_isset answers
\* for n alone, also when the set raises the length into words that an earlier
\* growth allocated.
C10_OnlyThatNumber ==
    /\ []IssetReadsWords
    /\ [][ last'.op \in {"set", "unset"} =>
               WordMembers(heap', bm'[last'.s]) \ {last'.n}
                   = WordMembers(heap, bm[last'.s]) \ {last'.n} ]_vars

\* a set that raised the length from 1 to 2 words within the capacity of 8 that
\* the first growth allocated, the Bitmap holding a member in each word
C10_Witness ==
    /\ last.op = "set" /\ last.ret = "0"
    /\ last.len = 1
    /\ bm[last.s].n_bitmaps = 2
    /\ bm[last.s].bitmaps_allocated = GreedyMinBytes \div WORD_BYTES
    /\ Cardinality(Members(heap, bm[last.s])) >= 2

====
